---- MODULE Spec2Model ----
(***************************************************************************)
(* jest-matcher-utils (packages/jest-matcher-utils/src/index.js): type     *)
(* detection, value stringification, argument guards and message builders. *)
(*                                                                         *)
(* The module is a library of synchronous functions.  A state records the  *)
(* last exported function called, its arguments and its outcome (a return  *)
(* value or a thrown error, together with the trace of the calls it made   *)
(* to the pretty-printer and to the guards).                               *)
(*                                                                         *)
(* A JavaScript string with styling is a Text: a sequence of pieces        *)
(* [style, text]; `+` is \o, and Plain(t) is the string without styling.   *)
(* An optional string argument is <<>> (undefined) or <<s>>.               *)
(***************************************************************************)
EXTENDS Integers, Sequences, FiniteSets, TLC

VARIABLES call, outcome

vars == <<call, outcome>>

\* ------------------------------------------------------------- bounds ----

\* pluralize is called with counts 0 .. MaxCount
MaxCount == 15

\* ------------------------------------------------------------- values ----

\* What the code reads of a value: typeof, === null, Array.isArray,
\* .constructor (the property read may throw, or give RegExp, another value or
\* undefined), and what the pretty-printer meets: a toJSON hook (absent,
\* returning, throwing) and the structural rendering (which reads the value's
\* properties and may throw).  isRegExp says whether the value is a regular
\* expression object; the code never reads it.
Prim(lit, t) ==
    [lit |-> lit, typeof |-> t, isNull |-> FALSE, isArray |-> FALSE,
     isRegExp |-> FALSE, ctor |-> "other", toJSON |-> "none", render |-> "ok"]

UndefinedValue == [Prim("undefined", "undefined") EXCEPT !.ctor = "throws"]

NullValue == [Prim("null", "object") EXCEPT !.isNull = TRUE, !.ctor = "throws"]

Primitives ==
    { UndefinedValue, NullValue,
      Prim("true", "boolean"),
      Prim("3", "number"), Prim("NaN", "number"),
      Prim("\"x\"", "string"),
      Prim("Symbol(s)", "symbol"),
      Prim("10", "bigint"),
      Prim("[Function anonymous]", "function") }

ObjLit(shape) ==
    CASE shape = "array"  -> "[1, 2]"
      [] shape = "regexp" -> "/a/"
      [] OTHER            -> "{}"

Objects ==
    { [lit |-> ObjLit(shape), typeof |-> "object", isNull |-> FALSE,
       isArray |-> (shape = "array"), isRegExp |-> (shape = "regexp"),
       ctor |-> c, toJSON |-> j, render |-> r] :
        shape \in {"plain", "array", "regexp"},
        c \in {"RegExp", "other", "undefined", "throws"},
        j \in {"none", "returns", "throws"},
        r \in {"ok", "throws"} }

Values == Primitives \cup Objects

ValueType ==
    {"array", "boolean", "function", "null", "number", "object", "regexp",
     "string", "symbol", "undefined"}

\* ------------------------------------------------------- call outcomes ----

\* A call returns a value or throws an error; trace lists the calls it made to
\* the pretty-printer and to the guards, in order.
NoError == [site |-> "none", message |-> <<>>]

Return(v, tr) == [kind |-> "return", val |-> v, err |-> NoError, trace |-> tr]

Throw(e, tr) == [kind |-> "throw", val |-> "", err |-> e, trace |-> tr]

WithTrace(r, tr) == [kind |-> r.kind, val |-> r.val, err |-> r.err, trace |-> tr]

\* ---------------------------------------------------------------- text ----

Lit(s) == << [style |-> "none", text |-> s] >>

RECURSIVE Plain(_)
Plain(t) == IF t = <<>> THEN "" ELSE t[1].text \o Plain(Tail(t))

\* chalk.<style>(s): the string s in that style
chalk(style, s) == << [style |-> style, text |-> s] >>

EXPECTED_COLOR(s) == chalk("green", s)

RECEIVED_COLOR(s) == chalk("red", s)

NUMBERS ==
    << "zero", "one", "two", "three", "four", "five", "six", "seven", "eight",
       "nine", "ten", "eleven", "twelve", "thirteen" >>

\* ------------------------------------------------------ TypeClassifier ----

GetterError == [site |-> "value.constructor", message |-> Lit("constructor accessor threw")]

\* getType with the generic object test ahead of Array.isArray
getType_objectBeforeArray(value) ==
    IF value.typeof = "undefined" THEN Return("undefined", <<>>)
    ELSE IF value.isNull THEN Return("null", <<>>)
    ELSE IF value.typeof = "object" THEN
        IF value.ctor = "throws" THEN Throw(GetterError, <<>>)
        ELSE IF value.ctor = "RegExp" THEN Return("regexp", <<>>)
        ELSE Return("object", <<>>)
    ELSE IF value.isArray THEN Return("array", <<>>)
    ELSE IF value.typeof = "boolean" THEN Return("boolean", <<>>)
    ELSE IF value.typeof = "function" THEN Return("function", <<>>)
    ELSE IF value.typeof = "number" THEN Return("number", <<>>)
    ELSE IF value.typeof = "string" THEN Return("string", <<>>)
    ELSE IF value.typeof = "symbol" THEN Return("symbol", <<>>)
    ELSE Throw([site |-> "getType",
                message |-> Lit("value of unknown type: " \o value.lit)], <<>>)

getType(value) ==
    IF value.typeof = "undefined" THEN Return("undefined", <<>>)
    ELSE IF value.isNull THEN Return("null", <<>>)
    ELSE IF value.isArray THEN Return("array", <<>>)
    ELSE IF value.typeof = "boolean" THEN Return("boolean", <<>>)
    ELSE IF value.typeof = "function" THEN Return("function", <<>>)
    ELSE IF value.typeof = "number" THEN Return("number", <<>>)
    ELSE IF value.typeof = "string" THEN Return("string", <<>>)
    ELSE IF value.typeof = "object" THEN
        \* value.constructor === RegExp: the property read runs an accessor
        IF value.ctor = "throws" THEN Throw(GetterError, <<>>)
        ELSE IF value.ctor = "RegExp" THEN Return("regexp", <<>>)
        ELSE Return("object", <<>>)
    ELSE IF value.typeof = "symbol" THEN Return("symbol", <<>>)
    ELSE Throw([site |-> "getType",
                message |-> Lit("value of unknown type: " \o value.lit)], <<>>)

\* ------------------------------------------------------ ValueFormatter ----

MaxDepth == 10

\* The structural pretty-printer.  With the hook enabled (callToJSON, on unless
\* the options turn it off) a value that has a toJSON hook is rendered through
\* it, and a throwing hook makes the rendering fail; otherwise the value's own
\* structure is rendered, which fails when reading it fails.
prettyFormat(val, opts) ==
    LET callToJSON == IF "callToJSON" \in DOMAIN opts THEN opts.callToJSON ELSE TRUE IN
    IF callToJSON /\ val.toJSON = "throws" THEN
        Throw([site |-> "prettyFormat", message |-> Lit("toJSON threw")], <<>>)
    ELSE IF callToJSON /\ val.toJSON = "returns" THEN
        Return("toJSON(" \o val.lit \o ")", <<>>)
    ELSE IF val.render = "throws" THEN
        Throw([site |-> "prettyFormat", message |-> Lit("rendering threw")], <<>>)
    ELSE Return(val.lit, <<>>)

PfEvent(opts) == [fn |-> "prettyFormat", options |-> opts]

\* stringify whose retry leaves the hook enabled
stringify_retryKeepsHook(object) ==
    LET o1    == [maxDepth |-> MaxDepth, min |-> TRUE]
        first == prettyFormat(object, o1)
    IN  IF first.kind = "return" THEN Return(first.val, << PfEvent(o1) >>)
        ELSE LET second == prettyFormat(object, o1)
             IN  WithTrace(second, << PfEvent(o1), PfEvent(o1) >>)

\* stringify without the try/catch
stringify_noRetry(object) ==
    LET o1    == [maxDepth |-> MaxDepth, min |-> TRUE]
        first == prettyFormat(object, o1)
    IN  WithTrace(first, << PfEvent(o1) >>)

stringify(object) ==
    LET o1    == [maxDepth |-> MaxDepth, min |-> TRUE]
        o2    == [callToJSON |-> FALSE, maxDepth |-> MaxDepth, min |-> TRUE]
        first == prettyFormat(object, o1)
    IN  IF first.kind = "return" THEN Return(first.val, << PfEvent(o1) >>)
        ELSE LET second == prettyFormat(object, o2)
             IN  WithTrace(second, << PfEvent(o1), PfEvent(o2) >>)

printReceived(object) ==
    LET s == stringify(object)
    IN  IF s.kind = "throw" THEN s ELSE Return(RECEIVED_COLOR(s.val), s.trace)

printExpected(value) ==
    LET s == stringify(value)
    IN  IF s.kind = "throw" THEN s ELSE Return(EXPECTED_COLOR(s.val), s.trace)

\* the `print` argument of printWithType, applied
ApplyPrint(print, value) ==
    IF print = "printReceived" THEN printReceived(value) ELSE printExpected(value)

\* printWithType that omits the type only for null
printWithType_onlyNull(name, received, print) ==
    LET type == getType(received) IN
    IF type.kind = "throw" THEN type
    ELSE LET p == ApplyPrint(print, received) IN
         IF p.kind = "throw" THEN p
         ELSE Return(Lit(name) \o Lit(":")
                       \o (IF type.val # "null"
                             THEN Lit("\n  ") \o Lit(type.val) \o Lit(": ")
                             ELSE Lit(" "))
                       \o p.val,
                     p.trace)

printWithType(name, received, print) ==
    LET type == getType(received) IN
    IF type.kind = "throw" THEN type
    ELSE LET p == ApplyPrint(print, received) IN
         IF p.kind = "throw" THEN p
         ELSE Return(Lit(name) \o Lit(":")
                       \o (IF type.val # "null" /\ type.val # "undefined"
                             THEN Lit("\n  ") \o Lit(type.val) \o Lit(": ")
                             ELSE Lit(" "))
                       \o p.val,
                     p.trace)

\* ------------------------------------------------------ MessageBuilders ----

\* matcherHint whose defaults also replace an empty label
matcherHint_falsyDefault(matcherName, received, expected) ==
    LET r == IF received \in {<<>>, <<"">>} THEN "received" ELSE received[1]
        e == IF expected \in {<<>>, <<"">>} THEN "expected" ELSE expected[1]
    IN  chalk("dim", "expect(") \o RECEIVED_COLOR(r)
          \o chalk("dim", ")" \o matcherName \o "(")
          \o EXPECTED_COLOR(e) \o chalk("dim", ")")

matcherHint(matcherName, received, expected) ==
    LET r == IF received = <<>> THEN "received" ELSE received[1]
        e == IF expected = <<>> THEN "expected" ELSE expected[1]
    IN  chalk("dim", "expect(") \o RECEIVED_COLOR(r)
          \o chalk("dim", ")" \o matcherName \o "(")
          \o EXPECTED_COLOR(e) \o chalk("dim", ")")

\* pluralize that leaves the word singular for zero too
pluralize_singularZero(word, count) ==
    (IF count + 1 \in DOMAIN NUMBERS THEN NUMBERS[count + 1] ELSE ToString(count))
      \o " " \o word \o (IF count <= 1 THEN "" ELSE "s")

pluralize(word, count) ==
    (IF count + 1 \in DOMAIN NUMBERS THEN NUMBERS[count + 1] ELSE ToString(count))
      \o " " \o word \o (IF count = 1 THEN "" ELSE "s")

\* ------------------------------------------------------- ArgumentGuards ----

\* matcherName || (matcherName = dflt)
OrDefault(matcherName, dflt) ==
    IF matcherName \in {<<>>, <<"">>} THEN dflt ELSE matcherName[1]

ensureNoExpected(expected, matcherName) ==
    LET name == OrDefault(matcherName, "This") IN
    IF expected.typeof # "undefined" THEN
        LET hint == matcherHint("[.not]" \o name, <<>>, <<"">>)
            p    == printWithType("Got", expected, "printExpected")
        IN  IF p.kind = "throw" THEN p
            ELSE Throw([site |-> "ensureNoExpected",
                        message |-> hint \o Lit("\n\n")
                                      \o Lit("Matcher does not accept any arguments.")
                                      \o Lit("\n") \o p.val],
                       p.trace)
    ELSE Return(UndefinedValue, <<>>)

\* ensureActualIsNumber that lets a bigint through
ensureActualIsNumber_acceptsBigint(actual, matcherName) ==
    LET name == OrDefault(matcherName, "This matcher") IN
    IF actual.typeof # "number" /\ actual.typeof # "bigint" THEN
        LET hint == matcherHint("[.not]" \o name, <<>>, <<>>)
            p    == printWithType("Received", actual, "printReceived")
        IN  IF p.kind = "throw" THEN p
            ELSE Throw([site |-> "ensureActualIsNumber",
                        message |-> hint \o Lit("\n\n")
                                      \o Lit("Actual value must be a number.")
                                      \o Lit("\n") \o p.val],
                       p.trace)
    ELSE Return(UndefinedValue, <<>>)

ensureActualIsNumber(actual, matcherName) ==
    LET name == OrDefault(matcherName, "This matcher") IN
    IF actual.typeof # "number" THEN
        LET hint == matcherHint("[.not]" \o name, <<>>, <<>>)
            p    == printWithType("Received", actual, "printReceived")
        IN  IF p.kind = "throw" THEN p
            ELSE Throw([site |-> "ensureActualIsNumber",
                        message |-> hint \o Lit("\n\n")
                                      \o Lit("Actual value must be a number.")
                                      \o Lit("\n") \o p.val],
                       p.trace)
    ELSE Return(UndefinedValue, <<>>)

ensureExpectedIsNumber(expected, matcherName) ==
    LET name == OrDefault(matcherName, "This matcher") IN
    IF expected.typeof # "number" THEN
        LET hint == matcherHint("[.not]" \o name, <<>>, <<>>)
            p    == printWithType("Got", expected, "printExpected")
        IN  IF p.kind = "throw" THEN p
            ELSE Throw([site |-> "ensureExpectedIsNumber",
                        message |-> hint \o Lit("\n\n")
                                      \o Lit("Expected value must be a number.")
                                      \o Lit("\n") \o p.val],
                       p.trace)
    ELSE Return(UndefinedValue, <<>>)

GuardEvent(fn) == [fn |-> fn]

ensureNumbers(actual, expected, matcherName) ==
    LET a == ensureActualIsNumber(actual, matcherName) IN
    IF a.kind = "throw"
      THEN WithTrace(a, << GuardEvent("ensureActualIsNumber") >> \o a.trace)
      ELSE LET e == ensureExpectedIsNumber(expected, matcherName) IN
           WithTrace(e, << GuardEvent("ensureActualIsNumber") >> \o a.trace
                                 \o << GuardEvent("ensureExpectedIsNumber") >> \o e.trace)

\* ------------------------------------------------------- the callers ----

MatcherNames == { <<>>, <<"">>, <<".toBe">> }

HintNames == { ".toBe", "[.not].toBe" }

Labels == { <<>>, <<"">>, <<"object">> }

PrintNames == { "Got", "Received" }

Printers == { "printReceived", "printExpected" }

Words == { "apple", "test" }

\* No call is in progress: the module is loaded and a caller may call any
\* exported function.
Idle == [fn |-> "idle", args |-> <<>>]

Init ==
    /\ call = Idle
    /\ outcome = Return(UndefinedValue, <<>>)

\* A caller calls an exported function, which runs to its return or throw.
Do(f, a, res) ==
    /\ call' = [fn |-> f, args |-> a]
    /\ outcome' = res

\* The caller takes the outcome.
Finish ==
    /\ call # Idle
    /\ call' = Idle
    /\ outcome' = Return(UndefinedValue, <<>>)

CallGetType ==
    /\ call = Idle
    /\ \E v \in Values :
         Do("getType", <<v>>, getType(v))

CallStringify ==
    /\ call = Idle
    /\ \E v \in Values :
         Do("stringify", <<v>>, stringify(v))

CallPrintReceived ==
    /\ call = Idle
    /\ \E v \in Values :
         Do("printReceived", <<v>>, printReceived(v))

CallPrintExpected ==
    /\ call = Idle
    /\ \E v \in Values :
         Do("printExpected", <<v>>, printExpected(v))

CallPrintWithType ==
    /\ call = Idle
    /\ \E n \in PrintNames, v \in Values, p \in Printers :
         Do("printWithType", <<n, v, p>>,
           printWithType(n, v, p))

CallEnsureNoExpected ==
    /\ call = Idle
    /\ \E v \in Values, m \in MatcherNames :
         Do("ensureNoExpected", <<v, m>>,
           ensureNoExpected(v, m))

CallEnsureActualIsNumber ==
    /\ call = Idle
    /\ \E v \in Values, m \in MatcherNames :
         Do("ensureActualIsNumber", <<v, m>>,
           ensureActualIsNumber(v, m))

CallEnsureExpectedIsNumber ==
    /\ call = Idle
    /\ \E v \in Values, m \in MatcherNames :
         Do("ensureExpectedIsNumber", <<v, m>>,
           ensureExpectedIsNumber(v, m))

CallEnsureNumbers ==
    /\ call = Idle
    /\ \E a \in Values, e \in Values, m \in MatcherNames :
         Do("ensureNumbers", <<a, e, m>>,
           ensureNumbers(a, e, m))

CallPluralize ==
    /\ call = Idle
    /\ \E w \in Words, c \in 0 .. MaxCount :
         Do("pluralize", <<w, c>>, Return(pluralize(w, c), <<>>))

CallMatcherHint ==
    /\ call = Idle
    /\ \E m \in HintNames, r \in Labels, e \in Labels :
         Do("matcherHint", <<m, r, e>>,
           Return(matcherHint(m, r, e), <<>>))

Next ==
    \/ CallGetType
    \/ CallStringify
    \/ CallPrintReceived
    \/ CallPrintExpected
    \/ CallPrintWithType
    \/ CallEnsureNoExpected
    \/ CallEnsureActualIsNumber
    \/ CallEnsureExpectedIsNumber
    \/ CallEnsureNumbers
    \/ CallPluralize
    \/ CallMatcherHint
    \/ Finish

Spec == Init /\ [][Next]_vars

\* ---------------------------------------------------------- properties ----

Arg(i) == call.args[i]

\* a piece of the text t is the string s
Contains(t, s) == \E i \in DOMAIN t : t[i].text = s

\* the events of a trace that are calls of fn
CallsOf(fn, trace) == SelectSeq(trace, LAMBDA ev : ev.fn = fn)

\* A value's runtime kind: what the value is, whatever its properties say.
Kind(v) ==
    IF v.typeof = "undefined" THEN "undefined"
    ELSE IF v.isNull THEN "null"
    ELSE IF v.isArray THEN "array"
    ELSE IF v.isRegExp THEN "regexp"
    ELSE v.typeof

KnownTypeof ==
    {"undefined", "boolean", "function", "number", "string", "object", "symbol"}

\* C1 as stated: getType returns a tag of the closed set for every value, never
\* throws, the tag is fixed by the value's runtime kind, arrays give 'array',
\* null 'null', undefined 'undefined' and every regular expression 'regexp'.
C1_Original ==
    call.fn = "getType" =>
        LET v == Arg(1) IN
        /\ outcome.kind = "return"
        /\ outcome.val \in ValueType
        /\ v.isArray => outcome.val = "array"
        /\ v.isNull => outcome.val = "null"
        /\ v.typeof = "undefined" => outcome.val = "undefined"
        /\ v.isRegExp => outcome.val = "regexp"
        /\ \A w \in Values : Kind(w) = Kind(v) => getType(w) = outcome

\* C1 amended: getType throws exactly for a value whose typeof is not one of
\* the seven it tests (the classification error, carrying the value) and for a
\* non-null, non-array object whose constructor read throws; otherwise it
\* returns one tag of the closed set, fixed by typeof, null-ness, Array.isArray
\* and constructor === RegExp: undefined 'undefined', null 'null', every array
\* 'array', and a non-null non-array object 'regexp' exactly when its
\* constructor is RegExp, else 'object'.
C1_GetTypeTags ==
    call.fn = "getType" =>
        LET v       == Arg(1)
            isObj   == v.typeof = "object" /\ ~v.isNull /\ ~v.isArray
            unknown == v.typeof \notin KnownTypeof
        IN
        /\ outcome.kind = "throw" <=> (unknown \/ (isObj /\ v.ctor = "throws"))
        /\ unknown =>
             /\ outcome.err.site = "getType"
             /\ Plain(outcome.err.message) = "value of unknown type: " \o v.lit
        /\ outcome.kind = "return" =>
             /\ outcome.val \in ValueType
             /\ outcome.val =
                  (IF v.typeof = "undefined" THEN "undefined"
                   ELSE IF v.isNull THEN "null"
                   ELSE IF v.isArray THEN "array"
                   ELSE IF isObj THEN (IF v.ctor = "RegExp" THEN "regexp" ELSE "object")
                   ELSE v.typeof)

\* a regular expression whose constructor is not RegExp is classified 'object'
C1_Witness ==
    /\ call.fn = "getType"
    /\ Arg(1).isRegExp /\ Arg(1).ctor = "other"
    /\ outcome.kind = "return" /\ outcome.val = "object"

\* C2 as stated: stringify returns a string for every value, never throws.
C2_Original ==
    call.fn = "stringify" => outcome.kind = "return"

\* C2 amended: stringify returns the fallback rendering for a value whose
\* toJSON hook throws and whose hook-disabled rendering succeeds; it throws
\* exactly when the first rendering and the hook-disabled rendering both fail,
\* and the error is then the pretty-printer's.
C2_StringifyFallback ==
    call.fn = "stringify" =>
        LET v == Arg(1) IN
        /\ (v.toJSON = "throws" /\ v.render = "ok") =>
              outcome.kind = "return" /\ outcome.val = v.lit
        /\ outcome.kind = "throw" <=> (v.toJSON # "returns" /\ v.render = "throws")
        /\ outcome.kind = "throw" => outcome.err.site = "prettyFormat"

\* a value whose hook throws is rendered by the fallback
C2_Witness ==
    /\ call.fn = "stringify"
    /\ Arg(1).toJSON = "throws" /\ Arg(1).render = "ok"
    /\ outcome.kind = "return"

\* C3: ensureActualIsNumber and ensureExpectedIsNumber fail exactly when the
\* value's typeof is not number; for a number they return undefined, whatever
\* the matcherName.
C3_NumberGuards ==
    call.fn \in {"ensureActualIsNumber", "ensureExpectedIsNumber"} =>
        /\ outcome.kind = "throw" <=> Arg(1).typeof # "number"
        /\ Arg(1).typeof = "number" => outcome = Return(UndefinedValue, <<>>)

\* NaN, a number, passes the guard called without a matcherName
C3_Witness ==
    /\ call.fn = "ensureActualIsNumber"
    /\ Arg(1).typeof = "number" /\ Arg(1).lit = "NaN" /\ Arg(2) = <<>>
    /\ outcome.kind = "return"

\* C4 as stated: ensureNoExpected returns undefined exactly when expected is
\* undefined, and for every other value throws an error whose message contains
\* "Matcher does not accept any arguments.".
C4_Original ==
    call.fn = "ensureNoExpected" =>
        IF Arg(1).typeof = "undefined"
          THEN outcome = Return(UndefinedValue, <<>>)
          ELSE /\ outcome.kind = "throw"
               /\ Contains(outcome.err.message, "Matcher does not accept any arguments.")

\* C5 as stated: ensureNumbers surfaces the "Actual value must be a number."
\* error, without running the expected guard, whenever actual is not a number;
\* the "Expected value must be a number." error only when actual is a number
\* and expected is not; and succeeds exactly when both are numbers.
C5_Original ==
    call.fn = "ensureNumbers" =>
        LET a    == Arg(1).typeof = "number"
            e    == Arg(2).typeof = "number"
            expM == /\ outcome.kind = "throw"
                    /\ Contains(outcome.err.message, "Expected value must be a number.")
        IN
        /\ ~a => /\ outcome.kind = "throw"
                 /\ Contains(outcome.err.message, "Actual value must be a number.")
                 /\ CallsOf("ensureExpectedIsNumber", outcome.trace) = <<>>
        /\ (a /\ ~e) <=> expM
        /\ (a /\ e) <=> outcome.kind = "return"

\* C6: printWithType gives label ": " printed for null and undefined, and
\* label ":\n  " type ": " printed for a value of any other type.
C6_PrintWithType ==
    call.fn = "printWithType" =>
        LET n == Arg(1)
            t == getType(Arg(2))
            p == ApplyPrint(Arg(3), Arg(2))
        IN  (t.kind = "return" /\ p.kind = "return") =>
              /\ outcome.kind = "return"
              /\ Plain(outcome.val) =
                   (IF t.val \in {"null", "undefined"}
                      THEN n \o ": " \o Plain(p.val)
                      ELSE n \o ":\n  " \o t.val \o ": " \o Plain(p.val))
              /\ (n = "Received" /\ Arg(2) = Prim("3", "number")) =>
                   Plain(outcome.val) = "Received:\n  number: 3"

\* printWithType("Got", null, printExpected) is "Got: null"
C6_Witness ==
    /\ call.fn = "printWithType"
    /\ Arg(1) = "Got" /\ Arg(2) = NullValue /\ Arg(3) = "printExpected"
    /\ outcome.kind = "return" /\ Plain(outcome.val) = "Got: null"

\* C7: pluralize gives the spelled number for 0 .. 13 and the numeral from 14
\* on, a space, the word, and an "s" unless the count is exactly 1.
C7_Pluralize ==
    call.fn = "pluralize" =>
        LET w == Arg(1)
            c == Arg(2)
            spelled == << "zero", "one", "two", "three", "four", "five", "six",
                          "seven", "eight", "nine", "ten", "eleven", "twelve",
                          "thirteen" >>
        IN  /\ outcome.kind = "return"
            /\ outcome.val =
                 (IF c <= 13 THEN spelled[c + 1] ELSE ToString(c))
                   \o " " \o w \o (IF c = 1 THEN "" ELSE "s")
            /\ c = 0 => outcome.val = "zero " \o w \o "s"

\* pluralize("apple", 14) is "14 apples"
C7_Witness ==
    /\ call.fn = "pluralize"
    /\ Arg(1) = "apple" /\ Arg(2) = 14
    /\ outcome.val = "14 apples"

\* C8: matcherHint is "expect(" received ")" matcherName "(" expected ")" with
\* the matcherName verbatim; an undefined label takes its default, an empty
\* label leaves its slot blank (as in ensureNoExpected's hint).
C8_MatcherHint ==
    /\ call.fn = "matcherHint" =>
         LET r == IF Arg(2) = <<>> THEN "received" ELSE Arg(2)[1]
             e == IF Arg(3) = <<>> THEN "expected" ELSE Arg(3)[1]
         IN  Plain(outcome.val) = "expect(" \o r \o ")" \o Arg(1) \o "(" \o e \o ")"
    /\ (call.fn = "ensureNoExpected" /\ outcome.err.site = "ensureNoExpected") =>
         Plain(SubSeq(outcome.err.message, 1, 5)) =
           "expect(received)[.not]"
             \o (IF Arg(2) \in {<<>>, <<"">>} THEN "This" ELSE Arg(2)[1]) \o "()"

\* the default received label beside an explicitly empty expected label
C8_Witness ==
    /\ call.fn = "matcherHint"
    /\ Arg(1) = ".toBe" /\ Arg(2) = <<>> /\ Arg(3) = <<"">>
    /\ Plain(outcome.val) = "expect(received).toBe()"

GuardNames ==
    {"ensureNoExpected", "ensureActualIsNumber", "ensureExpectedIsNumber", "ensureNumbers"}

\* C9 as stated: a guard that fails always fails with its argument-validation
\* error (hint, blank line, reason, labeled value), never with a classification
\* error or another error raised while the message is built.
C9_Original ==
    (call.fn \in GuardNames /\ outcome.kind = "throw") =>
        /\ outcome.err.site \in
             {"ensureNoExpected", "ensureActualIsNumber", "ensureExpectedIsNumber"}
        /\ \/ Contains(outcome.err.message, "Matcher does not accept any arguments.")
           \/ Contains(outcome.err.message, "Actual value must be a number.")
           \/ Contains(outcome.err.message, "Expected value must be a number.")

\* C10: stringify renders once with the hook enabled, and a second time only
\* if that failed, with the hook disabled and the same depth limit and compact
\* mode; a successful first rendering is the result; never a third attempt.
C10_TwoAttempts ==
    call.fn = "stringify" =>
        LET pf    == CallsOf("prettyFormat", outcome.trace)
            v     == Arg(1)
            first == v.toJSON = "throws" \/ (v.toJSON = "none" /\ v.render = "throws")
        IN
        /\ Len(pf) \in {1, 2}
        /\ "callToJSON" \in DOMAIN pf[1].options => pf[1].options.callToJSON
        /\ pf[1].options.maxDepth = 10 /\ pf[1].options.min
        /\ Len(pf) = 2 <=> first
        /\ Len(pf) = 2 =>
             /\ "callToJSON" \in DOMAIN pf[2].options
             /\ ~pf[2].options.callToJSON
             /\ pf[2].options.maxDepth = 10 /\ pf[2].options.min
        /\ Len(pf) = 1 =>
             /\ outcome.kind = "return"
             /\ outcome.val = (IF v.toJSON = "returns"
                                 THEN "toJSON(" \o v.lit \o ")" ELSE v.lit)

\* a second attempt, made after the first failed, that succeeds
C10_Witness ==
    /\ call.fn = "stringify"
    /\ Len(CallsOf("prettyFormat", outcome.trace)) = 2
    /\ outcome.kind = "return"

====
